---- MODULE Spec2Model ----
(***************************************************************************)
(* A model of poetry.repositories.pool.Pool: the ordered repository list,  *)
(* its name -> position lookup table, the secondary boundary, the parent   *)
(* fallback and the accumulation list, with add_repository,                *)
(* remove_repository, package and find_packages as atomic operations.      *)
(* Positions are 0-based as in the Python source; the k-th element of a    *)
(* Python list s is s[k+1] here.                                           *)
(*                                                                         *)
(* And a model of poetry.repositories.legacy_repository: Page.versions,    *)
(* LegacyRepository._get, find_packages with its matched-versions cache,   *)
(* find_links_for_package and _get_release_info, against one index page    *)
(* and a clock. find_packages is given both as one atomic operation and as *)
(* the steps of concurrent calls.                                          *)
(***************************************************************************)
EXTENDS Integers, Sequences, FiniteSets, TLC

\* ------------------------------------------------------------------ bounds
\* Number of Pool objects: a chain, pool p+1 being the parent of pool p.
NumPools == 2
\* Total number of successful add_repository calls over all pools.
MaxAdds == 3
\* The same, in the specification that also makes lookups.
MaxCallAdds == 2
\* Total number of repositories remove_repository takes out of the lists.
MaxRemoves == 1
\* Total number of packages kept in the accumulation lists.
MaxPackages == 1
\* Largest number of packages one client returns from find_packages.
MaxFound == 1

\* --------------------------------------------------------- value universe
\* Python None, for _secondary_start_idx and dict.get.
None == -1
\* Python None, for a repository name / a parent reference.
NoName == "<None>"
NoPool == 0

Pools == 1..NumPools
\* Repository.name values of the clients handed to add_repository.
RepoNames == {"a", "B"}
\* Names passed to remove_repository, package(repository=) and
\* Dependency.source_name: other spellings of the above and a stranger.
QueryNames == {"A", "b", "c"}

\* str.lower() on the names in use.
Lower(n) ==
    CASE n = "A" -> "a"
      [] n = "B" -> "b"
      [] OTHER -> n

\* `name.lower() if name is not None else None`
LowerOpt(n) == IF n = NoName THEN NoName ELSE Lower(n)

VARIABLES
    pools,      \* pools[p]: the fields of Pool object p
    clients,    \* clients[p][k]: the k-th repository object added to pool p
    last,       \* the operation in progress / its outcome; op = "idle" between calls
    page,       \* the links of the index page the server holds for the package
    now,        \* round(time.time()), in the unit of the cache's time-to-live
    matches,    \* the "matches" store of LegacyRepository._cache: key -> entry
    calls       \* calls[t]: the LegacyRepository call of thread t

poolVars == <<pools, clients, last>>
legacyVars == <<page, now, matches, calls>>
vars == <<pools, clients, last, page, now, matches, calls>>

\* ----------------------------------------------------- Python containers
Min(a, b) == IF a < b THEN a ELSE b

\* list.insert(i, x), i >= 0: positions past the end append.
Insert(s, i, x) ==
    LET k == Min(i, Len(s))
    IN  SubSeq(s, 1, k) \o <<x>> \o SubSeq(s, k + 1, Len(s))

\* del s[i], for 0 <= i < len(s)
DelAt(s, i) == SubSeq(s, 1, i) \o SubSeq(s, i + 2, Len(s))

\* d[k] = v
Put(d, k, v) == [n \in DOMAIN d \cup {k} |-> IF n = k THEN v ELSE d[n]]

\* d.get(k)
Get(d, k) == IF k \in DOMAIN d THEN d[k] ELSE None

Range(s) == {s[i] : i \in DOMAIN s}

\* s[:i] with i = None meaning the whole list
Prefix(s, i) == IF i = None THEN s ELSE SubSeq(s, 1, Min(i, Len(s)))

\* ------------------------------------------------------------- the clients
\* The name of repository object k of pool p.
NameOf(p, k) == clients[p][k].name

Tier(isDefault, isSecondary) ==
    IF isDefault THEN "default" ELSE IF isSecondary THEN "secondary" ELSE "primary"

\* ------------------------------------------------------------ Pool.__init__
NewPool(ignore, par) ==
    [ lookup |-> << >>,
      repositories |-> << >>,
      default |-> FALSE,
      has_primary_repositories |-> FALSE,
      secondary_start_idx |-> None,
      parent |-> par,
      ignore_repository_names |-> ignore,
      packages |-> << >> ]

\* ------------------------------------------------- Pool.add_repository
\* default branch
AddDefault(pl, c, key) ==
    [pl EXCEPT
        !.default = TRUE,
        !.repositories = Insert(@, 0, c),
        !.lookup = Put([n \in DOMAIN pl.lookup |-> pl.lookup[n] + 1], key, 0),
        !.secondary_start_idx = IF @ # None THEN @ + 1 ELSE @]

\* secondary branch
AddSecondary(pl, c, key) ==
    [pl EXCEPT
        !.secondary_start_idx = IF @ = None THEN Len(pl.repositories) ELSE @,
        !.repositories = Append(@, c),
        !.lookup = Put(@, key, Len(pl.repositories))]

\* A primary branch that forgets the secondary boundary and always appends.
AddPrimaryAtEnd(pl, c, key) ==
    [pl EXCEPT
        !.has_primary_repositories = TRUE,
        !.repositories = Append(@, c),
        !.lookup = Put(@, key, Len(pl.repositories))]

\* primary branch
AddPrimary(pl, c, key) ==
    IF pl.secondary_start_idx = None
    THEN [pl EXCEPT
            !.has_primary_repositories = TRUE,
            !.repositories = Append(@, c),
            !.lookup = Put(@, key, Len(pl.repositories))]
    ELSE LET b == pl.secondary_start_idx
         IN  [pl EXCEPT
                !.has_primary_repositories = TRUE,
                !.repositories = Insert(@, b, c),
                !.lookup = Put([n \in DOMAIN pl.lookup |->
                                  IF pl.lookup[n] < b THEN pl.lookup[n]
                                  ELSE pl.lookup[n] + 1], key, b),
                !.secondary_start_idx = b + 1]

\* add_repository(repository, default, secondary): outcome and the pool after
add_repository(pl, c, name, isDefault, isSecondary) ==
    LET key == LowerOpt(name)
    IN  IF isDefault
        THEN IF pl.default
             THEN [outcome |-> "ValueError", pool |-> pl]
             ELSE [outcome |-> "ok", pool |-> AddDefault(pl, c, key)]
        ELSE IF isSecondary
             THEN [outcome |-> "ok", pool |-> AddSecondary(pl, c, key)]
             ELSE [outcome |-> "ok", pool |-> AddPrimary(pl, c, key)]

\* ----------------------------------------------- Pool.remove_repository
remove_repository(pl, name) ==
    LET idx == Get(pl.lookup, LowerOpt(name))
    IN  IF idx = None
        THEN [outcome |-> "ok", pool |-> pl]
        ELSE IF idx < Len(pl.repositories)
             THEN [outcome |-> "ok",
                   pool |-> [pl EXCEPT !.repositories = DelAt(@, idx)]]
             ELSE [outcome |-> "IndexError", pool |-> pl]

\* ------------------------------------------------- the clients' answers
\* What one client call yields: n packages, or PackageNotFound raised.
\* Repository.package yields one package, None (n = 0) or PackageNotFound;
\* Repository.find_packages yields a list of 0..MaxFound packages.
PackageResp == {[n |-> 1, raised |-> FALSE], [n |-> 0, raised |-> FALSE],
                [n |-> 0, raised |-> TRUE]}
FindResp == {[n |-> k, raised |-> FALSE] : k \in 0..MaxFound}

\* The Package objects client c of pool p builds when it yields n of them.
Packages(p, c, n) == [k \in 1..n |-> [pool |-> p, client |-> c, k |-> k]]

Event(p, c, r) == [pool |-> p, client |-> c, resp |-> r]
Frame(p, outcome, value) == [pool |-> p, outcome |-> outcome, value |-> value]

\* What a call yields: how it ended, the value returned (a package list; for
\* package() the one package, or empty for None), the client calls made in
\* order, one frame per Pool invoked in order, and the pools afterwards.
Result(outcome, value, queried, frames, pls) ==
    [outcome |-> outcome, value |-> value, queried |-> queried,
     frames |-> frames, pools |-> pls]

\* --------------------------------------------------- Pool.has_repository
has_repository(pl, name) == LowerOpt(name) \in DOMAIN pl.lookup

\* ------------------------------------------------------- Pool.repository
\* repository(name) for a name in the lookup table: the client, or None
\* where the list has no such position (the subscript raises IndexError).
repository(pl, key) ==
    IF pl.lookup[key] < Len(pl.repositories)
    THEN pl.repositories[pl.lookup[key] + 1]
    ELSE None

\* A test that turns an unknown name away whether or not the pool ignores
\* names.
UnrecognizedStrict(pl, repo) ==
    /\ repo # NoName
    /\ repo \notin DOMAIN pl.lookup

\* The test that opens package and find_packages: a name was given, this pool
\* does not know it, and names are not ignored.
Unrecognized(pl, repo) ==
    /\ repo # NoName
    /\ repo \notin DOMAIN pl.lookup
    /\ ~pl.ignore_repository_names

\* `repository is not None and not self._ignore_repository_names`
Named(pl, repo) == repo # NoName /\ ~pl.ignore_repository_names

\* The clients an unnamed lookup scans: self._repositories[:self._secondary_start_idx]
Scanned(pl) == Prefix(pl.repositories, pl.secondary_start_idx)

\* --------------------------------------------------------- Pool.package
\* A Pool object is truthy, so `if self._parent` asks whether there is one.
RECURSIVE package(_, _, _, _, _)

\* `return self._parent.package(...)`: the parent's outcome is this call's.
PackageParent(pls, p, projectOk, repo, oracle, queried) ==
    LET up == package(pls, pls[p].parent, projectOk, repo, oracle)
    IN  Result(up.outcome, up.value, queried \o up.queried,
               <<Frame(p, up.outcome, up.value)>> \o up.frames, up.pools)

\* The unknown-repository branch.
PackageUnrecognized(pls, p, projectOk, repo, oracle) ==
    IF pls[p].parent # NoPool
    THEN PackageParent(pls, p, projectOk, repo, oracle, << >>)
    ELSE Result("ValueError", << >>, << >>, <<Frame(p, "ValueError", << >>)>>, pls)

\* The end of the method: the parent if there is one, else PackageNotFound.
PackageFallback(pls, p, projectOk, repo, oracle, queried) ==
    IF pls[p].parent # NoPool
    THEN PackageParent(pls, p, projectOk, repo, oracle, queried)
    ELSE Result("PackageNotFound", << >>, queried,
                <<Frame(p, "PackageNotFound", << >>)>>, pls)

\* A named branch that lets the client's PackageNotFound out as it is.
PackageNamedSurfaces(pls, p, projectOk, repo, oracle) ==
    LET c == repository(pls[p], repo)
    IN  IF c = None
        THEN Result("IndexError", << >>, << >>, <<Frame(p, "IndexError", << >>)>>, pls)
        ELSE LET r == oracle[<<p, c>>]
             IN  IF r.raised
                 THEN Result("PackageNotFound", << >>, <<Event(p, c, r)>>,
                             <<Frame(p, "PackageNotFound", << >>)>>, pls)
                 ELSE Result("ok", Packages(p, c, r.n), <<Event(p, c, r)>>,
                             <<Frame(p, "ok", Packages(p, c, r.n))>>, pls)

\* The named branch: the one client; its PackageNotFound is passed over.
PackageNamed(pls, p, projectOk, repo, oracle) ==
    LET c == repository(pls[p], repo)
    IN  IF c = None
        THEN Result("IndexError", << >>, << >>, <<Frame(p, "IndexError", << >>)>>, pls)
        ELSE LET r == oracle[<<p, c>>]
             IN  IF r.raised
                 THEN PackageFallback(pls, p, projectOk, repo, oracle,
                                      <<Event(p, c, r)>>)
                 ELSE Result("ok", Packages(p, c, r.n), <<Event(p, c, r)>>,
                             <<Frame(p, "ok", Packages(p, c, r.n))>>, pls)

\* The loop `for repo in self._repositories`, from position i on.
RECURSIVE PackageScan(_, _, _, _)
PackageScan(p, repos, oracle, i) ==
    IF i > Len(repos)
    THEN [found |-> FALSE, value |-> << >>, queried |-> << >>]
    ELSE LET c == repos[i]
             r == oracle[<<p, c>>]
         IN  IF ~r.raised /\ r.n > 0
             THEN [found |-> TRUE, value |-> Packages(p, c, 1),
                   queried |-> <<Event(p, c, r)>>]
             ELSE LET rest == PackageScan(p, repos, oracle, i + 1)
                  IN  [rest EXCEPT !.queried = <<Event(p, c, r)>> \o @]

\* An unnamed branch that stops at the secondary boundary, as find_packages does.
PackageUnnamedStopsAtBoundary(pls, p, projectOk, repo, oracle) ==
    LET scan == PackageScan(p, Scanned(pls[p]), oracle, 1)
    IN  IF scan.found
        THEN Result("ok", scan.value, scan.queried, <<Frame(p, "ok", scan.value)>>,
                    [pls EXCEPT ![p].packages = @ \o scan.value])
        ELSE PackageFallback(pls, p, projectOk, repo, oracle, scan.queried)

\* An unnamed branch that returns the package without recording it.
PackageUnnamedForgets(pls, p, projectOk, repo, oracle) ==
    LET scan == PackageScan(p, pls[p].repositories, oracle, 1)
    IN  IF scan.found
        THEN Result("ok", scan.value, scan.queried, <<Frame(p, "ok", scan.value)>>, pls)
        ELSE PackageFallback(pls, p, projectOk, repo, oracle, scan.queried)

\* The unnamed branch: the first client that yields a package; it is recorded.
PackageUnnamed(pls, p, projectOk, repo, oracle) ==
    LET scan == PackageScan(p, pls[p].repositories, oracle, 1)
    IN  IF scan.found
        THEN Result("ok", scan.value, scan.queried, <<Frame(p, "ok", scan.value)>>,
                    [pls EXCEPT ![p].packages = @ \o scan.value])
        ELSE PackageFallback(pls, p, projectOk, repo, oracle, scan.queried)

package(pls, p, projectOk, repositoryArg, oracle) ==
    LET repo == LowerOpt(repositoryArg)
    IN  IF ~projectOk
        THEN Result("RuntimeError", << >>, << >>,
                    <<Frame(p, "RuntimeError", << >>)>>, pls)
        ELSE IF Unrecognized(pls[p], repo)
        THEN PackageUnrecognized(pls, p, projectOk, repo, oracle)
        ELSE IF Named(pls[p], repo)
        THEN PackageNamed(pls, p, projectOk, repo, oracle)
        ELSE PackageUnnamed(pls, p, projectOk, repo, oracle)

\* --------------------------------------------------- Pool.find_packages
RECURSIVE find_packages(_, _, _, _)

\* A delegation that asks the parent a second time for the value it returns.
FindParentTwice(pls, p, source_name, oracle, queried) ==
    LET up == find_packages(pls, pls[p].parent, source_name, oracle)
    IN  Result(up.outcome, up.value, queried \o up.queried \o up.queried,
               <<Frame(p, up.outcome, up.value)>> \o up.frames \o up.frames,
               up.pools)

\* `return self._parent.find_packages(dependency)`
FindParent(pls, p, source_name, oracle, queried) ==
    LET up == find_packages(pls, pls[p].parent, source_name, oracle)
    IN  Result(up.outcome, up.value, queried \o up.queried,
               <<Frame(p, up.outcome, up.value)>> \o up.frames, up.pools)

\* An unknown-repository branch that fails whether or not there is a parent.
FindUnrecognizedFails(pls, p, source_name, oracle) ==
    Result("ValueError", << >>, << >>, <<Frame(p, "ValueError", << >>)>>, pls)

\* The unknown-repository branch.
FindUnrecognized(pls, p, source_name, oracle) ==
    IF pls[p].parent # NoPool
    THEN FindParent(pls, p, source_name, oracle, << >>)
    ELSE Result("ValueError", << >>, << >>, <<Frame(p, "ValueError", << >>)>>, pls)

\* The named branch: whatever the one client yields.
FindNamed(pls, p, repo, oracle) ==
    LET c == repository(pls[p], repo)
    IN  IF c = None
        THEN Result("IndexError", << >>, << >>, <<Frame(p, "IndexError", << >>)>>, pls)
        ELSE LET r == oracle[<<p, c>>]
             IN  Result("ok", Packages(p, c, r.n), <<Event(p, c, r)>>,
                        <<Frame(p, "ok", Packages(p, c, r.n))>>, pls)

\* The loop over the scanned clients, from position i on: stop at the first
\* non-empty answer.
RECURSIVE FindScan(_, _, _, _)
FindScan(p, repos, oracle, i) ==
    IF i > Len(repos)
    THEN [packages |-> << >>, queried |-> << >>]
    ELSE LET c == repos[i]
             r == oracle[<<p, c>>]
             found_packages == Packages(p, c, r.n)
         IN  IF Len(found_packages) > 0
             THEN [packages |-> << >> \o found_packages,
                   queried |-> <<Event(p, c, r)>>]
             ELSE LET rest == FindScan(p, repos, oracle, i + 1)
                  IN  [rest EXCEPT !.queried = <<Event(p, c, r)>> \o @]

\* The unnamed branch: scan, then the parent when nothing was found.
FindUnnamed(pls, p, source_name, oracle) ==
    LET scan == FindScan(p, Scanned(pls[p]), oracle, 1)
    IN  IF Len(scan.packages) = 0 /\ pls[p].parent # NoPool
        THEN FindParent(pls, p, source_name, oracle, scan.queried)
        ELSE Result("ok", scan.packages, scan.queried,
                    <<Frame(p, "ok", scan.packages)>>, pls)

find_packages(pls, p, source_name, oracle) ==
    LET repo == LowerOpt(source_name)
    IN  IF Unrecognized(pls[p], repo)
        THEN FindUnrecognized(pls, p, source_name, oracle)
        ELSE IF Named(pls[p], repo)
        THEN FindNamed(pls, p, repo, oracle)
        ELSE FindUnnamed(pls, p, source_name, oracle)

\* =================================================== legacy_repository.py
\* ------------------------------------------------------- legacy: bounds
\* Versions are 1..MaxVersion in their order; the odd ones are pre-releases
\* (1 < 2 < 3 stand for 1.0a1 < 1.0 < 2.0a1).
MaxVersion == 3
\* Largest number of links on the index page.
MaxLinks == 2
\* Largest number of links on a page whose versions are only traversed.
MaxPageLinks == 4
\* The clock stops at MaxTime.
MaxTime == 5
\* Number of threads calling find_packages concurrently.
NumThreads == 2
\* Number of distinct cache keys the calls of one run use.
MaxKeys == 1

\* ------------------------------------------------------ legacy: values
\* The minutes argument of put(key, versions, 5).
TTL == 5

Versions == 1..MaxVersion

\* Version.is_unstable()
is_unstable(v) == v % 2 = 1

\* Python None for a link without a hash fragment.
NoHash == "<None>"
\* link.hash_name of a link with a hash fragment.
HashNames == {"sha256", "md5"}

\* A link of Page.links: the version text in its filename (text 0 is a
\* filename in which the patterns find no version or whose version text
\* Version.parse rejects), whether the file is a wheel (every other supported
\* format is a source archive), and the hash of its URL fragment, digest "d".
\* The links of the pages that find_packages runs against are source
\* archives without a hash: the file attributes play no part there.
Links == [text : 0..MaxVersion, wheel : {FALSE}, hash_name : {NoHash}, hash : {NoHash}]

\* The links of the pages release information is read from.
FileLinks ==
    [text : 0..MaxVersion, wheel : BOOLEAN, hash_name : {NoHash}, hash : {NoHash}]
    \cup [text : 0..MaxVersion, wheel : BOOLEAN, hash_name : HashNames, hash : {"d"}]

RECURSIVE SeqsUpTo(_, _)
SeqsUpTo(S, n) ==
    IF n = 0 THEN {<< >>}
    ELSE LET shorter == SeqsUpTo(S, n - 1)
         IN  shorter \cup {Append(s, x) : s \in shorter, x \in S}

Pages == SeqsUpTo(Links, MaxLinks)

\* Page.link_version: the text matched by wheel_file_re or VERSION_REGEX,
\* parsed; None without a match or when parsing raises ValueError.
link_version(link) == IF link.text = 0 THEN None ELSE link.text

\* Page.versions, from link i on, with the versions already seen.
RECURSIVE VersionsFrom(_, _, _)
VersionsFrom(links, i, seen) ==
    IF i > Len(links) THEN << >>
    ELSE LET version == link_version(links[i])
         IN  IF version = None THEN VersionsFrom(links, i + 1, seen)
             ELSE IF version \in seen THEN VersionsFrom(links, i + 1, seen)
             ELSE <<version>> \o VersionsFrom(links, i + 1, seen \cup {version})

\* A traversal that does not remember what it has yielded.
versionsNoSeen(links) ==
    LET RECURSIVE Each(_)
        Each(i) == IF i > Len(links) THEN << >>
                   ELSE IF link_version(links[i]) = None THEN Each(i + 1)
                   ELSE <<link_version(links[i])>> \o Each(i + 1)
    IN  Each(1)

versions(links) == VersionsFrom(links, 1, {})

\* Page.links_for_version
links_for_version(links, version) ==
    SelectSeq(links, LAMBDA link : link_version(link) = version)

\* ------------------------------------------------- legacy: constraints
\* A VersionConstraint: a VersionRange min <= v < max (None: no bound) or a
\* union of single versions, which is no VersionRange.
VersionRange(lo, hi) == [isRange |-> TRUE, min |-> lo, max |-> hi, alts |-> {}]
AnyC == VersionRange(None, None)
Ge(v) == VersionRange(v, None)
Lt(v) == VersionRange(None, v)
OneOf(S) == [isRange |-> FALSE, min |-> None, max |-> None, alts |-> S]

Constraints ==
    {AnyC} \cup {Ge(v) : v \in Versions} \cup {Lt(MaxVersion)} \cup {OneOf({1, 2})}

is_any(c) == c.isRange /\ c.min = None /\ c.max = None

allows(c, v) ==
    IF c.isRange
    THEN (c.min = None \/ v >= c.min) /\ (c.max = None \/ v < c.max)
    ELSE v \in c.alts

\* A Dependency on the one package of the index: its constraint and its
\* allows_prereleases() flag.
Dependencies == [constraint : Constraints, allows_prereleases : BOOLEAN]

\* An allowance that is the dependency's flag whatever the bounds.
allowFlagOnly(dep) == dep.allows_prereleases

\* find_packages: the effective pre-release allowance
allow_prereleases(dep) ==
    LET c == dep.constraint
    IN  IF c.isRange /\ (   (c.max # None /\ is_unstable(c.max))
                         \/ (c.min # None /\ is_unstable(c.min)))
        THEN TRUE
        ELSE dep.allows_prereleases

\* find_packages: the cache key, the name alone or name:str(constraint)
KeyOf(dep) ==
    IF is_any(dep.constraint) THEN <<"name">>
    ELSE <<"name", dep.constraint>>

\* ------------------------------------------- legacy: the "matches" store
\* An entry is the pair cachy's dict store keeps: the expiration time and the
\* value. A read of an entry whose time has come forgets it and yields None.
store_get(m, key, t) ==
    IF key \notin DOMAIN m
    THEN [found |-> FALSE, value |-> << >>, store |-> m, forgot |-> FALSE]
    ELSE IF t >= m[key].expire
    THEN [found |-> FALSE, value |-> << >>,
          store |-> [k \in DOMAIN m \ {key} |-> m[k]], forgot |-> TRUE]
    ELSE [found |-> TRUE, value |-> m[key].value, store |-> m, forgot |-> FALSE]

\* has(key): get(key) is not None
store_has(m, key, t) == store_get(m, key, t)

store_put(m, key, value, t) == Put(m, key, [expire |-> t + TTL, value |-> value])

\* -------------------------------------------------- LegacyRepository._get
\* What session.get meets: a response with a status code, or no response at
\* all (DNS failure, connection refused: requests.ConnectionError).
NoResponse == 0
Statuses == {200, 300, 401, 403, 404, 500}
Responses == Statuses \cup {NoResponse}

\* Response.raise_for_status() raises HTTPError for 4xx and 5xx.
raise_for_status(status) == 400 <= status /\ status < 600

\* A _get that wraps every failure of the request.
_getWrapsAll(resp) ==
    IF resp = NoResponse THEN "RepositoryError"
    ELSE IF resp \in {401, 403} THEN "absent"
    ELSE IF resp = 404 THEN "absent"
    ELSE IF raise_for_status(resp) THEN "RepositoryError"
    ELSE "page"

\* _get: "page" when it returns a Page, "absent" when it returns None, else
\* the exception that leaves it.
_get(resp) ==
    IF resp = NoResponse THEN "ConnectionError"
    ELSE IF resp \in {401, 403} THEN "absent"
    ELSE IF resp = 404 THEN "absent"
    ELSE IF raise_for_status(resp) THEN "RepositoryError"
    ELSE "page"

\* ----------------------------------------- LegacyRepository.find_packages
\* The loop over page.versions: the matched versions and the pre-releases
\* set aside, from version i on.
RECURSIVE MatchFrom(_, _, _, _)
MatchFrom(vs, i, c, allow) ==
    IF i > Len(vs) THEN [versions |-> << >>, ignored |-> << >>]
    ELSE LET rest == MatchFrom(vs, i + 1, c, allow)
             v == vs[i]
         IN  IF is_unstable(v) /\ ~allow
             THEN IF is_any(c)
                  THEN [rest EXCEPT !.ignored = <<v>> \o @]
                  ELSE rest
             ELSE IF allows(c, v)
                  THEN [rest EXCEPT !.versions = <<v>> \o @]
                  ELSE rest

\* The packages built from (versions, ignored_pre_release_versions): one
\* Package per version; a Package is identified by its version.
BuildPackages(vs, ignored, c) ==
    IF vs # << >> \/ ~is_any(c) THEN vs ELSE ignored

\* How a LegacyRepository call stands: the operation, the step it is at, its
\* dependency (or the version asked for), what the call met (the response,
\* whether has(key) answered true or found an entry whose time had come,
\* whether get(key) gave a list, whether it fetched and stored) and how it
\* ended: the packages, the links or the urls and files of the release.
NewCall ==
    [ op |-> "none", pc |-> "idle",
      dep |-> [constraint |-> AnyC, allows_prereleases |-> FALSE],
      version |-> None, resp |-> None,
      hit |-> FALSE, expired |-> FALSE, read |-> FALSE, fetched |-> FALSE,
      stored |-> FALSE,
      versions |-> << >>, ignored |-> << >>,
      outcome |-> "none", packages |-> << >>, links |-> << >>,
      urls |-> [bdist_wheel |-> << >>, sdist |-> << >>], files |-> << >> ]

\* The hit branch: versions = get(key), then the packages. Iterating None
\* raises TypeError.
ReadCached(c, m, t) ==
    LET g == store_get(m, KeyOf(c.dep), t)
    IN  [ call |-> IF g.found
                   THEN [c EXCEPT !.pc = "done", !.read = TRUE,
                                  !.versions = g.value,
                                  !.outcome = "ok",
                                  !.packages = BuildPackages(g.value, << >>,
                                                             c.dep.constraint)]
                   ELSE [c EXCEPT !.pc = "done", !.outcome = "TypeError"],
          store |-> g.store ]

\* A miss branch that takes an absent page for a page without versions and
\* goes on to the cache write.
FetchAndMatchCachesAbsent(c, links, resp) ==
    LET r == _get(resp)
        f == MatchFrom(versions(links), 1, c.dep.constraint,
                       allow_prereleases(c.dep))
    IN  IF r = "absent"
        THEN [c EXCEPT !.pc = "put", !.fetched = TRUE, !.resp = resp]
        ELSE IF r # "page"
        THEN [c EXCEPT !.pc = "done", !.fetched = TRUE, !.resp = resp,
                       !.outcome = r]
        ELSE [c EXCEPT !.pc = "put", !.fetched = TRUE, !.resp = resp,
                       !.versions = f.versions, !.ignored = f.ignored]

\* The miss branch up to the cache write: _get and the loop over the page.
FetchAndMatch(c, links, resp) ==
    LET r == _get(resp)
        f == MatchFrom(versions(links), 1, c.dep.constraint,
                       allow_prereleases(c.dep))
    IN  IF r = "absent"
        THEN [c EXCEPT !.pc = "done", !.fetched = TRUE, !.resp = resp,
                       !.outcome = "ok"]
        ELSE IF r # "page"
        THEN [c EXCEPT !.pc = "done", !.fetched = TRUE, !.resp = resp,
                       !.outcome = r]
        ELSE [c EXCEPT !.pc = "put", !.fetched = TRUE, !.resp = resp,
                       !.versions = f.versions, !.ignored = f.ignored]

\* A miss branch that builds the packages and forgets the cache write.
StoreMatchesSkipsPut(c, m, t) ==
    [ call |-> [c EXCEPT !.pc = "done", !.stored = TRUE, !.outcome = "ok",
                         !.packages = BuildPackages(c.versions, c.ignored,
                                                    c.dep.constraint)],
      store |-> m ]

\* The cache write and the packages of the miss branch.
StoreMatches(c, m, t) ==
    [ call |-> [c EXCEPT !.pc = "done", !.stored = TRUE, !.outcome = "ok",
                         !.packages = BuildPackages(c.versions, c.ignored,
                                                    c.dep.constraint)],
      store |-> store_put(m, KeyOf(c.dep), c.versions, t) ]

\* find_packages when nothing happens between its steps: the call as it ends
\* and the store after it.
legacy_find_packages(m, links, t, dep, resp) ==
    LET c0 == [NewCall EXCEPT !.op = "find_packages", !.dep = dep]
        h == store_has(m, KeyOf(dep), t)
    IN  IF h.found
        THEN ReadCached([c0 EXCEPT !.hit = TRUE], h.store, t)
        ELSE LET c1 == FetchAndMatch([c0 EXCEPT !.expired = h.forgot], links, resp)
             IN  IF c1.pc = "put"
                 THEN StoreMatches(c1, h.store, t)
                 ELSE [call |-> c1, store |-> h.store]

\* --------------------------------- LegacyRepository.find_links_for_package
find_links_for_package(links, version, resp) ==
    LET r == _get(resp)
        c0 == [NewCall EXCEPT !.op = "find_links_for_package", !.pc = "done",
                              !.version = version, !.fetched = TRUE,
                              !.resp = resp]
    IN  IF r = "absent" THEN [c0 EXCEPT !.outcome = "ok"]
        ELSE IF r # "page" THEN [c0 EXCEPT !.outcome = r]
        ELSE [c0 EXCEPT !.outcome = "ok",
                        !.links = links_for_version(links, version)]

\* -------------------------------------- LegacyRepository._get_release_info
\* link.filename: the name spells the version text and the format.
filename(link) == [text |-> link.text, wheel |-> link.wheel]

\* f"{link.hash_name}:{link.hash}" if link.hash else None
file_hash(link) ==
    IF link.hash # NoHash THEN <<link.hash_name, ":", link.hash>> ELSE <<NoHash>>

\* The loop over the links: the urls by kind of file.
RECURSIVE ReleaseUrls(_, _)
ReleaseUrls(ls, i) ==
    IF i > Len(ls) THEN [bdist_wheel |-> << >>, sdist |-> << >>]
    ELSE LET rest == ReleaseUrls(ls, i + 1)
         IN  IF ls[i].wheel
             THEN [rest EXCEPT !.bdist_wheel = <<ls[i]>> \o @]
             ELSE [rest EXCEPT !.sdist = <<ls[i]>> \o @]

\* A loop that records a file only where it finds a hash on the link.
ReleaseFilesHashedOnly(ls) ==
    LET RECURSIVE Each(_)
        Each(i) ==
            IF i > Len(ls) THEN << >>
            ELSE IF ls[i].hash = NoHash THEN Each(i + 1)
            ELSE <<[file |-> filename(ls[i]), hash |-> file_hash(ls[i])]>>
                    \o Each(i + 1)
    IN  Each(1)

\* The loop over the links: the files, one record per link.
ReleaseFiles(ls) ==
    [i \in 1..Len(ls) |-> [file |-> filename(ls[i]), hash |-> file_hash(ls[i])]]

\* _get_release_info up to the file list; the summary and the requirements
\* that _get_info_from_urls adds come from the files themselves.
_get_release_info(links, version, resp) ==
    LET r == _get(resp)
        c0 == [NewCall EXCEPT !.op = "_get_release_info", !.pc = "done",
                              !.version = version, !.fetched = TRUE,
                              !.resp = resp]
        ls == links_for_version(links, version)
    IN  IF r = "absent" THEN [c0 EXCEPT !.outcome = "PackageNotFound"]
        ELSE IF r # "page" THEN [c0 EXCEPT !.outcome = r]
        ELSE IF ls = << >> THEN [c0 EXCEPT !.outcome = "PackageNotFound"]
        ELSE [c0 EXCEPT !.outcome = "ok", !.links = ls,
                        !.urls = ReleaseUrls(ls, 1),
                        !.files = ReleaseFiles(ls)]

\* ------------------------------------------------- legacy: initial state
Threads == 1..NumThreads

\* The legacy client is not in use.
NoLegacy ==
    /\ page = << >>
    /\ now = 0
    /\ matches = << >>
    /\ calls = [t \in Threads |-> NewCall]

\* ------------------------------------------------------------------ state
\* The record of an operation: which one, on which pool, its arguments, how
\* it ended and what it returned, the client calls it made and the Pool
\* invocations it went through.
Idle ==
    [ op |-> "idle", pool |-> NoPool, name |-> NoName,
      isDefault |-> FALSE, isSecondary |-> FALSE, projectOk |-> TRUE,
      outcome |-> "ok", value |-> << >>, queried |-> << >>, frames |-> << >> ]

RECURSIVE SumLen(_, _)
SumLen(f, p) == IF p = 0 THEN 0 ELSE SumLen(f, p - 1) + Len(f[p])

TotalAdds == SumLen(clients, NumPools)
TotalRemoved == TotalAdds - SumLen([p \in Pools |-> pools[p].repositories], NumPools)
TotalPackages == SumLen([p \in Pools |-> pools[p].packages], NumPools)

\* No operation is in progress. The accumulation lists only grow: a run is
\* followed until they hold MaxPackages packages.
Ready == last.op = "idle" /\ TotalPackages < MaxPackages

\* Pool p and the pools its parent references lead to.
RECURSIVE Chain(_)
Chain(p) == IF p = NoPool THEN {} ELSE {p} \cup Chain(pools[p].parent)

\* The clients a call on pool p can reach.
ChainClients(p) ==
    UNION {{<<q, c>> : c \in Range(pools[q].repositories)} : q \in Chain(p)}

\* Parents are fixed at construction, and a parent exists before its child is
\* built: the pools form a chain, pool p+1 the parent of pool p and the last
\* pool without a parent. Operations are called on any pool of the chain.
Init ==
    /\ \E ig \in [Pools -> BOOLEAN] :
           pools = [p \in Pools |->
                      NewPool(ig[p], IF p < NumPools THEN p + 1 ELSE NoPool)]
    /\ clients = [p \in Pools |-> << >>]
    /\ last = Idle
    /\ NoLegacy

AddRepository(p, name, isDefault, isSecondary) ==
    /\ Ready
    /\ TotalAdds < MaxAdds
    /\ LET c == Len(clients[p]) + 1
           r == add_repository(pools[p], c, name, isDefault, isSecondary)
       IN  /\ pools' = [pools EXCEPT ![p] = r.pool]
           /\ clients' = IF r.outcome = "ok"
                         THEN [clients EXCEPT ![p] =
                                 Append(@, [name |-> name,
                                            tier |-> Tier(isDefault, isSecondary)])]
                         ELSE clients
           /\ last' = [Idle EXCEPT !.op = "add_repository", !.pool = p,
                                   !.name = name, !.isDefault = isDefault,
                                   !.isSecondary = isSecondary,
                                   !.outcome = r.outcome]
    /\ UNCHANGED legacyVars

RemoveRepository(p, name) ==
    /\ Ready
    /\ TotalRemoved < MaxRemoves
    /\ LET r == remove_repository(pools[p], name)
       IN  /\ pools' = [pools EXCEPT ![p] = r.pool]
           /\ last' = [Idle EXCEPT !.op = "remove_repository", !.pool = p,
                                   !.name = name, !.outcome = r.outcome]
    /\ UNCHANGED <<clients, legacyVars>>

Package(p, projectOk, repositoryArg, oracle) ==
    /\ Ready
    /\ LET r == package(pools, p, projectOk, repositoryArg, oracle)
       IN  /\ pools' = r.pools
           /\ last' = [Idle EXCEPT !.op = "package", !.pool = p,
                                   !.name = repositoryArg, !.projectOk = projectOk,
                                   !.outcome = r.outcome, !.value = r.value,
                                   !.queried = r.queried, !.frames = r.frames]
    /\ UNCHANGED <<clients, legacyVars>>

FindPackages(p, source_name, oracle) ==
    /\ Ready
    /\ LET r == find_packages(pools, p, source_name, oracle)
       IN  /\ pools' = r.pools
           /\ last' = [Idle EXCEPT !.op = "find_packages", !.pool = p,
                                   !.name = source_name,
                                   !.outcome = r.outcome, !.value = r.value,
                                   !.queried = r.queried, !.frames = r.frames]
    /\ UNCHANGED <<clients, legacyVars>>

\* The caller takes the outcome; the next operation may start.
Return ==
    /\ last.op # "idle"
    /\ last' = Idle
    /\ UNCHANGED <<pools, clients, legacyVars>>

\* add_repository alone
NextAdd ==
    \/ \E p \in Pools, name \in RepoNames, d \in BOOLEAN, s \in BOOLEAN :
           AddRepository(p, name, d, s)
    \/ Return

\* add_repository and remove_repository
NextPool ==
    \/ \E p \in Pools, name \in RepoNames, d \in BOOLEAN, s \in BOOLEAN :
           AddRepository(p, name, d, s)
    \/ \E p \in Pools, name \in QueryNames : RemoveRepository(p, name)
    \/ Return

\* every operation of the Pool
Next ==
    \/ \E p \in Pools, name \in RepoNames, d \in BOOLEAN, s \in BOOLEAN :
           TotalAdds < MaxCallAdds /\ AddRepository(p, name, d, s)
    \/ \E p \in Pools, name \in QueryNames : RemoveRepository(p, name)
    \/ \E p \in Pools, name \in QueryNames \cup {NoName} :
           \E oracle \in [ChainClients(p) -> PackageResp] :
               Package(p, TRUE, name, oracle)
    \/ \E p \in Pools, name \in QueryNames \cup {NoName} :
           Package(p, FALSE, name, << >>)
    \/ \E p \in Pools, name \in QueryNames \cup {NoName} :
           \E oracle \in [ChainClients(p) -> FindResp] :
               FindPackages(p, name, oracle)
    \/ Return

SpecAdd == Init /\ [][NextAdd]_vars
SpecPool == Init /\ [][NextPool]_vars
Spec == Init /\ [][Next]_vars


\* ================================================= legacy client: state
\* The pools are not in use.
NoPools ==
    /\ pools = [p \in Pools |-> NewPool(FALSE, IF p < NumPools THEN p + 1 ELSE NoPool)]
    /\ clients = [p \in Pools |-> << >>]
    /\ last = Idle

\* One LegacyRepository with an empty cache, in front of an index whose page
\* for the package does not change.
InitLegacy ==
    /\ NoPools
    /\ page \in Pages
    /\ now = 0
    /\ matches = << >>
    /\ calls = [t \in Threads |-> NewCall]

\* The thread of the calls that run one at a time.
Main == 1

\* The keys in the store and of the calls in progress.
KeysInUse ==
    DOMAIN matches \cup {KeyOf(calls[t].dep) : t \in {u \in Threads : calls[u].pc # "idle"}}

WithinKeys(dep) == Cardinality(KeysInUse \cup {KeyOf(dep)}) <= MaxKeys

\* time passes
Tick ==
    /\ now < MaxTime
    /\ now' = now + 1
    /\ UNCHANGED <<poolVars, page, matches, calls>>

\* find_packages(dependency), the clock standing still during the call
LegacyFindPackages(dep, resp) ==
    /\ calls[Main].pc = "idle"
    /\ WithinKeys(dep)
    /\ LET r == legacy_find_packages(matches, page, now, dep, resp)
       IN  /\ calls' = [calls EXCEPT ![Main] = r.call]
           /\ matches' = r.store
    /\ UNCHANGED <<poolVars, page, now>>

FindLinksForPackage(version, resp) ==
    /\ calls[Main].pc = "idle"
    /\ calls' = [calls EXCEPT ![Main] = find_links_for_package(page, version, resp)]
    /\ UNCHANGED <<poolVars, page, now, matches>>

GetReleaseInfo(version, resp) ==
    /\ calls[Main].pc = "idle"
    /\ calls' = [calls EXCEPT ![Main] = _get_release_info(page, version, resp)]
    /\ UNCHANGED <<poolVars, page, now, matches>>

\* The caller of thread t takes the outcome.
LegacyReturn(t) ==
    /\ calls[t].pc = "done"
    /\ calls' = [calls EXCEPT ![t] = NewCall]
    /\ UNCHANGED <<poolVars, page, now, matches>>

\* ------------------------------- find_packages of concurrent threads, by step
\* Thread t enters find_packages: up to the cache key.
Begin(t, dep) ==
    /\ calls[t].pc = "idle"
    /\ WithinKeys(dep)
    /\ calls' = [calls EXCEPT ![t] =
                   [NewCall EXCEPT !.op = "find_packages", !.pc = "has",
                                   !.dep = dep]]
    /\ UNCHANGED <<poolVars, page, now, matches>>

\* self._cache.store("matches").has(key)
Has(t) ==
    /\ calls[t].pc = "has"
    /\ LET h == store_has(matches, KeyOf(calls[t].dep), now)
       IN  /\ matches' = h.store
           /\ calls' = [calls EXCEPT ![t].hit = h.found,
                                     ![t].expired = h.forgot,
                                     ![t].pc = IF h.found THEN "get" ELSE "fetch"]
    /\ UNCHANGED <<poolVars, page, now>>

\* versions = self._cache.store("matches").get(key), and the packages
Read(t) ==
    /\ calls[t].pc = "get"
    /\ LET r == ReadCached(calls[t], matches, now)
       IN  /\ calls' = [calls EXCEPT ![t] = r.call]
           /\ matches' = r.store
    /\ UNCHANGED <<poolVars, page, now>>

\* page = self._get(...), and the loop over page.versions
Fetch(t, resp) ==
    /\ calls[t].pc = "fetch"
    /\ calls' = [calls EXCEPT ![t] = FetchAndMatch(calls[t], page, resp)]
    /\ UNCHANGED <<poolVars, page, now, matches>>

\* self._cache.store("matches").put(key, versions, 5), and the packages
Store(t) ==
    /\ calls[t].pc = "put"
    /\ LET r == StoreMatches(calls[t], matches, now)
       IN  /\ calls' = [calls EXCEPT ![t] = r.call]
           /\ matches' = r.store
    /\ UNCHANGED <<poolVars, page, now>>

\* list(page.versions)
Traverse ==
    /\ calls[Main].pc = "idle"
    /\ calls' = [calls EXCEPT ![Main] =
                   [NewCall EXCEPT !.op = "versions", !.pc = "done",
                                   !.outcome = "ok",
                                   !.versions = versions(page)]]
    /\ UNCHANGED <<poolVars, page, now, matches>>

\* A page of up to MaxPageLinks links, only traversed.
InitPage ==
    /\ NoPools
    /\ page \in SeqsUpTo(Links, MaxPageLinks)
    /\ now = 0
    /\ matches = << >>
    /\ calls = [t \in Threads |-> NewCall]

NextPage ==
    \/ Traverse
    \/ LegacyReturn(Main)

\* A page of links to files of every kind, with and without a hash.
InitRelease ==
    /\ NoPools
    /\ page \in SeqsUpTo(FileLinks, MaxLinks)
    /\ now = 0
    /\ matches = << >>
    /\ calls = [t \in Threads |-> NewCall]

\* find_links_for_package and _get_release_info
NextRelease ==
    \/ \E v \in Versions, resp \in Responses : FindLinksForPackage(v, resp)
    \/ \E v \in Versions, resp \in Responses : GetReleaseInfo(v, resp)
    \/ LegacyReturn(Main)

\* The calls of one thread, each as a whole.
NextLegacy ==
    \/ \E dep \in Dependencies, resp \in Responses : LegacyFindPackages(dep, resp)
    \/ \E v \in Versions, resp \in Responses : FindLinksForPackage(v, resp)
    \/ \E v \in Versions, resp \in Responses : GetReleaseInfo(v, resp)
    \/ LegacyReturn(Main)
    \/ Tick

\* find_packages calls of all threads, step by step.
NextRace ==
    \/ \E t \in Threads, dep \in Dependencies : Begin(t, dep)
    \/ \E t \in Threads : Has(t)
    \/ \E t \in Threads : Read(t)
    \/ \E t \in Threads, resp \in Responses : Fetch(t, resp)
    \/ \E t \in Threads : Store(t)
    \/ \E t \in Threads : LegacyReturn(t)
    \/ Tick

SpecPage == InitPage /\ [][NextPage]_vars
SpecRelease == InitRelease /\ [][NextRelease]_vars
SpecLegacy == InitLegacy /\ [][NextLegacy]_vars
SpecRace == InitLegacy /\ [][NextRace]_vars

\* ================================================================ claims
TierOf(p, k) == clients[p][k].tier

\* The clients of pool p added in tier t, in the order they were added.
RECURSIVE TierSeqUpTo(_, _, _)
TierSeqUpTo(p, t, k) ==
    IF k = 0 THEN << >>
    ELSE IF TierOf(p, k) = t
         THEN Append(TierSeqUpTo(p, t, k - 1), k)
         ELSE TierSeqUpTo(p, t, k - 1)

TierSeq(p, t) == TierSeqUpTo(p, t, Len(clients[p]))

\* C1: in every state reached by add_repository and remove_repository calls,
\* every name of the lookup table maps to a valid position of the repository
\* list, and the client at that position is the client of that name.
C1_LookupConsistent ==
    \A p \in Pools : \A n \in DOMAIN pools[p].lookup :
        /\ pools[p].lookup[n] >= 0
        /\ pools[p].lookup[n] < Len(pools[p].repositories)
        /\ LowerOpt(NameOf(p, pools[p].repositories[pools[p].lookup[n] + 1])) = n

\* The default of pool p, once added, is at position 0 and its name maps to 0.
DefaultFirst ==
    \A p \in Pools : \A k \in 1..Len(clients[p]) :
        TierOf(p, k) = "default" =>
            /\ Len(pools[p].repositories) >= 1
            /\ pools[p].repositories[1] = k
            /\ LowerOpt(NameOf(p, k)) \in DOMAIN pools[p].lookup
            /\ pools[p].lookup[LowerOpt(NameOf(p, k))] = 0

\* add_repository(default=True) on a pool that has a default fails with
\* ValueError and changes nothing of the pool.
SecondDefaultRejected ==
    (/\ last.op = "idle"
     /\ last'.op = "add_repository"
     /\ last'.isDefault
     /\ pools[last'.pool].default)
    => (last'.outcome = "ValueError" /\ pools' = pools /\ clients' = clients)

\* C2: a second default is rejected with ValueError and leaves the list, the
\* lookup table and the secondary boundary as they were; and after any further
\* add_repository calls the default is at position 0 of the list and its name
\* maps to index 0 in the lookup table.
C2_DefaultOnceAndFirst == [][SecondDefaultRejected /\ DefaultFirst']_vars

\* C3: after any add_repository calls the list is the default (if any), then
\* the primaries in the order added, then the secondaries in the order added;
\* and the secondary boundary, when set, is the position of the first secondary.
C3_TierOrder ==
    \A p \in Pools :
        /\ pools[p].repositories =
               TierSeq(p, "default") \o TierSeq(p, "primary") \o TierSeq(p, "secondary")
        /\ pools[p].secondary_start_idx # None =>
               /\ TierSeq(p, "secondary") # << >>
               /\ pools[p].secondary_start_idx =
                      Len(TierSeq(p, "default")) + Len(TierSeq(p, "primary"))

\* A pool that took a secondary, then a primary, then the default.
C3_Witness ==
    \E p \in Pools :
        /\ Len(clients[p]) = 3
        /\ TierOf(p, 1) = "secondary"
        /\ TierOf(p, 2) = "primary"
        /\ TierOf(p, 3) = "default"
        /\ pools[p].repositories = <<3, 2, 1>>
        /\ last.op = "idle"

\* ------------------------------------------------- lookups: vocabulary
Called(op) == last.op = op
ThePool == pools[last.pool]
TheKey == LowerOpt(last.name)

\* A client answer that hands over a package.
Yields(r) == ~r.raised /\ r.n > 0

\* The call did what the Pool invoked next in line did.
SameAsFrame(i) ==
    /\ Len(last.frames) >= i
    /\ last.outcome = last.frames[i].outcome
    /\ last.value = last.frames[i].value
    /\ last.frames[1].outcome = last.frames[i].outcome
    /\ last.frames[1].value = last.frames[i].value

\* The called pool handed the call to its parent.
WentToParent ==
    /\ Len(last.frames) >= 2
    /\ last.frames[2].pool = ThePool.parent
    /\ SameAsFrame(2)

\* C4: in every state reached by add_repository and remove_repository calls, a
\* find_packages for a dependency without a source name never calls
\* find_packages on a repository that was added as secondary.
C4_NoSecondaryScanned ==
    (Called("find_packages") /\ last.name = NoName) =>
        \A i \in DOMAIN last.queried :
            TierOf(last.queried[i].pool, last.queried[i].client) # "secondary"

\* C5: an unnamed find_packages that finds something in the called pool
\* returns exactly the answer of one client of the default and primary tiers:
\* the first in list order to answer non-empty (the default and primary
\* clients before it were asked and answered empty), nothing after it is asked
\* and no other answer is merged in.
C5_FirstNonEmptyWins ==
    (/\ Called("find_packages")
     /\ last.name = NoName
     /\ Len(last.frames) = 1
     /\ last.value # << >>) =>
        LET R == ThePool.repositories
            k == Len(last.queried)
            e == last.queried[k]
        IN  /\ TierOf(last.pool, e.client) \in {"default", "primary"}
            /\ last.value = Packages(last.pool, e.client, e.resp.n)
            /\ \A i \in 1..(k - 1) : last.queried[i].resp.n = 0
            /\ \E pos \in 1..Len(R) :
                   /\ R[pos] = e.client
                   /\ \A j \in 1..(pos - 1) :
                          TierOf(last.pool, R[j]) \in {"default", "primary"} =>
                              \E i \in 1..(k - 1) : last.queried[i].client = R[j]
                   /\ \A j \in (pos + 1)..Len(R) :
                          \A i \in 1..k : last.queried[i].client # R[j]

\* find_packages was called with a source name the pool does not know, names
\* not being ignored.
FindUnknownName ==
    /\ Called("find_packages")
    /\ last.name # NoName
    /\ TheKey \notin DOMAIN ThePool.lookup
    /\ ~ThePool.ignore_repository_names

\* C6: find_packages with a source name that is not in the lookup table (names
\* not ignored) fails with ValueError when the pool has no parent and returns
\* exactly what the parent's find_packages returns when it has one; no client
\* of the called pool is asked either way.
C6_UnknownNameDelegates ==
    FindUnknownName =>
        /\ \A i \in DOMAIN last.queried : last.queried[i].pool # last.pool
        /\ IF ThePool.parent = NoPool
           THEN last.outcome = "ValueError" /\ last.value = << >>
           ELSE WentToParent

\* An unknown name went to the parent, which found packages.
C6_Witness ==
    /\ FindUnknownName
    /\ ThePool.parent # NoPool
    /\ last.outcome = "ok"
    /\ last.value # << >>

\* C7: find_packages with a source name the pool recognizes (names not ignored)
\* returns exactly what the client of that name returns, empty or not; no
\* other client and no parent pool is asked.
C7_NamedAsksThatClient ==
    (/\ Called("find_packages")
     /\ last.name # NoName
     /\ TheKey \in DOMAIN ThePool.lookup
     /\ ~ThePool.ignore_repository_names) =>
        /\ last.outcome = "ok"
        /\ Len(last.frames) = 1
        /\ Len(last.queried) = 1
        /\ last.queried[1].pool = last.pool
        /\ LowerOpt(NameOf(last.pool, last.queried[1].client)) = TheKey
        /\ last.value = Packages(last.pool, last.queried[1].client,
                                 last.queried[1].resp.n)

\* package was called (with a ManagedProject) naming a repository the pool
\* recognizes, names not ignored, and that client raised PackageNotFound.
NamedClientNotFound ==
    /\ Called("package")
    /\ last.projectOk
    /\ last.name # NoName
    /\ TheKey \in DOMAIN ThePool.lookup
    /\ ~ThePool.ignore_repository_names
    /\ last.queried # << >>
    /\ last.queried[1].pool = last.pool
    /\ last.queried[1].resp.raised

\* C8 as stated: when the named, recognized client raises PackageNotFound, the
\* outcome of Pool.package is PackageNotFound, parent or not.
C8_NotFoundSurfaces ==
    NamedClientNotFound => last.outcome = "PackageNotFound"

\* C8 amended: when the named, recognized client raises PackageNotFound, the
\* pool asks no other client of its own; without a parent the outcome is
\* PackageNotFound, with a parent it is whatever the parent's package call
\* for the same repository name yields.
C8_NotFoundFallsToParent ==
    NamedClientNotFound =>
        /\ \A i \in 2..Len(last.queried) : last.queried[i].pool # last.pool
        /\ IF ThePool.parent = NoPool
           THEN last.outcome = "PackageNotFound" /\ Len(last.frames) = 1
           ELSE WentToParent

\* The named client raised PackageNotFound and the parent supplied a package.
C8_Witness ==
    /\ NamedClientNotFound
    /\ ThePool.parent # NoPool
    /\ last.outcome = "ok"
    /\ last.value # << >>
    /\ last.value[1].pool = ThePool.parent

\* The number of client calls made on the called pool's own clients.
OwnCalls == Cardinality({i \in DOMAIN last.queried : last.queried[i].pool = last.pool})

\* C9: package without a repository name (called with a ManagedProject) asks
\* the clients in list order over all tiers, passes over those that raise
\* PackageNotFound (or hand over nothing), returns the package of the first
\* that yields one and asks no client after it; when none yields one it
\* returns the parent's result if there is a parent and fails with
\* PackageNotFound otherwise.
C9_UnnamedScanOrder ==
    (Called("package") /\ last.projectOk /\ last.name = NoName) =>
        LET R == ThePool.repositories
            k == OwnCalls
        IN  /\ k <= Len(R)
            /\ k <= Len(last.queried)
            /\ \A i \in 1..k : /\ last.queried[i].pool = last.pool
                               /\ last.queried[i].client = R[i]
            /\ \A i \in 1..(k - 1) : ~Yields(last.queried[i].resp)
            /\ IF k > 0 /\ Yields(last.queried[k].resp)
               THEN /\ last.outcome = "ok"
                    /\ last.value = Packages(last.pool, R[k], 1)
                    /\ Len(last.queried) = k
                    /\ Len(last.frames) = 1
               ELSE /\ k = Len(R)
                    /\ IF ThePool.parent = NoPool
                       THEN /\ last.outcome = "PackageNotFound"
                            /\ Len(last.queried) = k
                            /\ Len(last.frames) = 1
                       ELSE WentToParent

\* An unnamed scan passed over a client that raised PackageNotFound and took
\* the package of the next one, a secondary.
C9_Witness ==
    /\ Called("package") /\ last.projectOk /\ last.name = NoName
    /\ Len(last.queried) = 2
    /\ last.queried[1].resp.raised
    /\ last.queried[2].pool = last.pool
    /\ TierOf(last.pool, last.queried[2].client) = "secondary"
    /\ last.outcome = "ok"
    /\ last.value # << >>

\* package returned a package; it came from a client of pool Finder.
ReturnedPackage == Called("package") /\ last.outcome = "ok" /\ last.value # << >>
Finder == last.value[1].pool

\* C10 as stated: every package that Pool.package returns from one of the
\* pool's own clients is in that pool's accumulation list after the call, for
\* unnamed scans and for calls naming a recognized repository.
C10_ReturnedIsRecorded ==
    ReturnedPackage =>
        \E i \in DOMAIN pools[Finder].packages :
            pools[Finder].packages[i] = last.value[1]

\* C10 amended: every package that Pool.package returns from a scan of the
\* pool's own clients (no repository name given, or names ignored) is the
\* newest entry of that pool's accumulation list after the call.
C10_ScanIsRecorded ==
    (/\ ReturnedPackage
     /\ (last.name = NoName \/ pools[Finder].ignore_repository_names)) =>
        /\ pools[Finder].packages # << >>
        /\ pools[Finder].packages[Len(pools[Finder].packages)] = last.value[1]

\* An unnamed scan returned a package of the called pool.
C10_Witness ==
    /\ ReturnedPackage
    /\ last.name = NoName
    /\ Finder = last.pool
    /\ pools[Finder].packages = last.value

\* ================================================= claims: legacy client
\* The call of the thread whose calls run one at a time.
TheCall == calls[Main]
FindDone == TheCall.op = "find_packages" /\ TheCall.pc = "done"
TheConstraint == TheCall.dep.constraint

\* The range's stated minimum or maximum is a pre-release.
UnstableBound(c) ==
    c.isRange /\ \E b \in {c.min, c.max} : b # None /\ b % 2 = 1

\* The pre-release allowance in effect for the call.
Allowance == TheCall.dep.allows_prereleases \/ UnstableBound(TheConstraint)

Keep(s, Test(_)) == SelectSeq(s, Test)

\* The versions of the page that the constraint allows and that are stable or
\* allowed as pre-releases, in page order.
Filtered ==
    LET Ok(v) == allows(TheConstraint, v) /\ (v % 2 = 0 \/ Allowance)
    IN  Keep(versions(page), Ok)

Unstables ==
    LET Pre(v) == v % 2 = 1
    IN  Keep(versions(page), Pre)

\* C11: on a cache miss with a present index page, find_packages returns one
\* Package per version of page.versions, in page order, that the constraint
\* allows and that is stable or covered by the effective pre-release allowance
\* (the dependency's flag, or forced when the range's min or max is unstable);
\* if that list is empty and the constraint is "any", the packages of the
\* unstable versions of the page instead; with another constraint the filtered
\* list, even when empty.
C11_MissFilters ==
    (FindDone /\ ~TheCall.hit /\ TheCall.stored) =>
        /\ TheCall.outcome = "ok"
        /\ TheCall.packages =
              IF Filtered # << >> THEN Filtered
              ELSE IF is_any(TheConstraint) THEN Unstables
              ELSE << >>

\* A miss whose range is bounded by a pre-release returned a pre-release to a
\* dependency that does not ask for pre-releases.
C11_Witness ==
    /\ FindDone /\ ~TheCall.hit /\ TheCall.stored
    /\ ~TheCall.dep.allows_prereleases
    /\ UnstableBound(TheConstraint)
    /\ \E i \in DOMAIN TheCall.packages : TheCall.packages[i] % 2 = 1

\* The index page is there and all its versions are pre-releases.
AllUnstable ==
    /\ versions(page) # << >>
    /\ \A i \in DOMAIN versions(page) : versions(page)[i] % 2 = 1

\* C12: every find_packages call with an "any" constraint and pre-releases not
\* allowed, against a page whose versions are all unstable, returns one
\* Package per version of the page, whether it fetched the page or was served
\* from the matched-versions cache.
C12_AllPrereleasesReturned ==
    (/\ FindDone
     /\ is_any(TheConstraint)
     /\ ~TheCall.dep.allows_prereleases
     /\ AllUnstable
     /\ (TheCall.hit \/ TheCall.stored)) =>
        /\ TheCall.outcome = "ok"
        /\ TheCall.packages = versions(page)

\* C13: a find_packages call with a constraint other than "any" whose
\* effective pre-release allowance is false never returns a Package of an
\* unstable version, whatever earlier calls left in the cache.
C13_NoPrereleaseUnasked ==
    (FindDone /\ ~is_any(TheConstraint) /\ ~Allowance) =>
        \A i \in DOMAIN TheCall.packages : TheCall.packages[i] % 2 = 0

\* The key of thread t's call, and the state of its entry.
KeyT(t) == KeyOf(calls[t].dep)
Live(k) == k \in DOMAIN matches /\ now < matches[k].expire
Stale(k) == k \in DOMAIN matches /\ now >= matches[k].expire

\* The steps of thread t's find_packages.
HasStep(t) == calls[t].pc = "has" /\ calls'[t].pc # "has"
ReadStep(t) == calls[t].pc = "get" /\ calls'[t].pc # "get"
FetchStep(t) == calls[t].pc = "fetch" /\ calls'[t].pc # "fetch"
StoreStep(t) == calls[t].pc = "put" /\ calls'[t].pc # "put"

\* An entry is written with five time units to live; a call whose has(key)
\* comes before the entry's time takes the hit branch, which fetches nothing,
\* and one whose has(key) comes later goes to fetch.
WrittenAndLookedUp(t) ==
    /\ StoreStep(t) =>
           /\ KeyT(t) \in DOMAIN matches'
           /\ matches'[KeyT(t)] = [expire |-> now + 5, value |-> calls[t].versions]
    /\ HasStep(t) =>
           /\ Live(KeyT(t)) => calls'[t].pc = "get"
           /\ Stale(KeyT(t)) => calls'[t].pc = "fetch" /\ calls'[t].expired
    /\ ReadStep(t) => ~calls'[t].fetched /\ calls'[t].pc = "done"

\* C14 as stated: an entry written at time T under a key is served, without
\* any HTTP fetch, to every find_packages call with that key made before T+5,
\* and the first call with the key after the entry has expired fetches again
\* and rewrites the entry.
C14_ServedThenRewritten ==
    [][\A t \in Threads :
           /\ WrittenAndLookedUp(t)
           /\ ReadStep(t) =>
                  calls'[t].outcome = "ok" /\ calls'[t].read
           /\ (FetchStep(t) /\ calls[t].expired) =>
                  calls'[t].fetched /\ calls'[t].pc = "put"]_vars

\* C14, amended: ... is served, without any HTTP fetch, to every call with
\* that key whose has(key) and get(key) both come before T+5 (a call whose
\* get(key) comes later fetches nothing either and gets no list); the first
\* call whose has(key) comes after the entry has expired fetches again, and
\* rewrites the entry exactly when the fetch yields a page.
C14_ServedThenFetched ==
    [][\A t \in Threads :
           /\ WrittenAndLookedUp(t)
           /\ ReadStep(t) =>
                  IF Live(KeyT(t))
                  THEN /\ calls'[t].outcome = "ok" /\ calls'[t].read
                       /\ calls'[t].versions = matches[KeyT(t)].value
                       /\ matches' = matches
                  ELSE calls'[t].outcome = "TypeError" /\ ~calls'[t].read
           /\ FetchStep(t) =>
                  /\ calls'[t].fetched
                  /\ calls'[t].pc = "put" <=> _get(calls'[t].resp) = "page"
                  /\ calls'[t].pc # "put" =>
                         calls'[t].pc = "done" /\ matches' = matches]_vars

\* A call found the entry of its key expired, fetched and wrote it anew, and
\* another call was served from the new entry.
C14_Witness ==
    \E t, u \in Threads :
        /\ calls[t].pc = "done" /\ calls[t].expired /\ calls[t].stored
        /\ calls[u].pc = "done" /\ calls[u].hit /\ calls[u].read
        /\ KeyT(u) \in DOMAIN matches
        /\ calls[u].versions = matches[KeyT(u)].value

\* C15: _get returns "absent" without raising for 401, 403 and 404, raises
\* RepositoryError for every other status outside 2xx and builds a Page for
\* 2xx; so find_packages returns an empty list on 401, 403 and 404.
C15_StatusContract ==
    (TheCall.pc = "done" /\ TheCall.fetched /\ TheCall.resp \in Statuses) =>
        LET st == TheCall.resp
        IN  /\ st \in {401, 403, 404} =>
                /\ _get(st) = "absent"
                /\ TheCall.op = "find_packages" =>
                       TheCall.outcome = "ok" /\ TheCall.packages = << >>
            /\ (st \notin {401, 403, 404} /\ ~(200 <= st /\ st < 300)) =>
                /\ _get(st) = "RepositoryError"
                /\ TheCall.outcome = "RepositoryError"
            /\ (200 <= st /\ st < 300) => _get(st) = "page"

\* C16: when the GET fails without a response (DNS failure, connection
\* refused), the caller of find_packages, find_links_for_package and
\* _get_release_info gets a RepositoryError.
C16_TransportWrapped ==
    (TheCall.pc = "done" /\ TheCall.fetched /\ TheCall.resp = NoResponse) =>
        TheCall.outcome = "RepositoryError"

\* The position of the first link of the page that derives version v.
FirstLink(v) ==
    CHOOSE k \in DOMAIN page :
        /\ link_version(page[k]) = v
        /\ \A j \in 1..(k - 1) : link_version(page[j]) # v

\* C17: one traversal of Page.versions never yields two equal versions, yields
\* the versions in the order of the first link that derives each, and yields
\* only versions derived from a link of the page; a link without a derivable
\* version contributes nothing.
C17_VersionsDistinctInOrder ==
    (TheCall.op = "versions" /\ TheCall.pc = "done") =>
        LET vs == TheCall.versions
        IN  /\ \A i, j \in DOMAIN vs : i # j => vs[i] # vs[j]
            /\ \A i \in DOMAIN vs :
                   /\ vs[i] # None
                   /\ \E k \in DOMAIN page : link_version(page[k]) = vs[i]
            /\ \A i, j \in DOMAIN vs : i < j => FirstLink(vs[i]) < FirstLink(vs[j])

\* A traversal of a page with a link without a version, and with two links
\* of one version around a link of another.
C17_Witness ==
    /\ TheCall.op = "versions" /\ TheCall.pc = "done"
    /\ Len(TheCall.versions) = 2
    /\ \E i, j, k, n \in DOMAIN page :
           /\ i < j /\ j < k
           /\ link_version(page[n]) = None
           /\ link_version(page[i]) = link_version(page[k])
           /\ link_version(page[i]) # None
           /\ link_version(page[j]) \notin {None, link_version(page[i])}

\* C18: whenever find_packages takes the cache-hit branch, the value it then
\* reads with get(key) is a version list that an earlier put stored under the
\* key, under every interleaving of has and get with the expiry of the entry
\* and with the steps of other calls; a stored value is the complete list of
\* one call.
C18_HitReadsStoredList ==
    \A t \in Threads :
        (calls[t].pc = "done" /\ calls[t].hit) =>
            /\ calls[t].read
            /\ calls[t].outcome = "ok"

\* ============================================ claims: the chain of pools
\* find_packages went into the scan of the called pool: no source name, or
\* names ignored.
UnnamedScan ==
    /\ Called("find_packages")
    /\ last.outcome = "ok"
    /\ last.name = NoName \/ ThePool.ignore_repository_names

\* The calls made to the clients of the called pool.
OwnEvents == {i \in DOMAIN last.queried : last.queried[i].pool = last.pool}
OwnTierOf(i) == TierOf(last.pool, last.queried[i].client)
FirstTiers == {i \in OwnEvents : OwnTierOf(i) \in {"default", "primary"}}

\* C19: in an unnamed scan of find_packages, if a default or primary client
\* of the pool returns a non-empty result the parent pool is never consulted;
\* if all of them return an empty result and a parent exists, the call returns
\* exactly the parent's find_packages result and the pool's secondary
\* repositories are not consulted on that path either; without a parent it
\* returns the empty list.
C19_ParentOnlyAfterEmptyScan ==
    UnnamedScan =>
        IF \E i \in FirstTiers : last.queried[i].resp.n > 0
        THEN Len(last.frames) = 1 /\ OwnEvents = DOMAIN last.queried
        ELSE IF ThePool.parent # NoPool
        THEN /\ WentToParent
             /\ \A i \in OwnEvents : OwnTierOf(i) # "secondary"
        ELSE last.value = << >> /\ Len(last.frames) = 1

\* The pools a call went through, in order.
Invoked(i) == last.frames[i].pool

\* C20: on a chain of pools linked by parent references, every package and
\* find_packages call ends, and it invokes each pool of the chain at most
\* once, in child-to-parent order, starting with the pool called.
C20_EachPoolOnceUpward ==
    (Called("package") \/ Called("find_packages")) =>
        /\ last.outcome \in {"ok", "ValueError", "PackageNotFound", "IndexError",
                             "RuntimeError"}
        /\ Len(last.frames) >= 1
        /\ Invoked(1) = last.pool
        /\ \A i \in 1..(Len(last.frames) - 1) :
               Invoked(i + 1) = pools[Invoked(i)].parent
        /\ \A i, j \in DOMAIN last.frames : i # j => Invoked(i) # Invoked(j)
        /\ \A i \in DOMAIN last.frames : Invoked(i) \in Chain(last.pool)
        /\ Len(last.frames) <= Cardinality(Chain(last.pool))

\* A find_packages call and a package call went through the whole chain,
\* from the first pool to the last.
C20_Witness ==
    /\ Called("package") \/ Called("find_packages")
    /\ last.pool = 1
    /\ Len(last.frames) = NumPools
    /\ Invoked(NumPools) = NumPools
    /\ last.queried # << >>

\* ============================================ claims: release information
ReleaseDone == TheCall.op = "_get_release_info" /\ TheCall.pc = "done"

\* The positions of the links of the page that derive the version asked for.
RECURSIVE PositionsFrom(_)
PositionsFrom(k) ==
    IF k > Len(page) THEN << >>
    ELSE IF page[k].text = TheCall.version THEN <<k>> \o PositionsFrom(k + 1)
    ELSE PositionsFrom(k + 1)

\* C21: _get_release_info fails with PackageNotFound when the index page is
\* absent, fails with PackageNotFound when no link of the page derives the
\* version asked for, and otherwise returns release metadata whose file list
\* has exactly one {file, hash} record per link of that version, in link
\* order, the hash being "hash_name:digest" when the link carries a hash and
\* none otherwise, whichever of the wheel and sdist buckets the link went to.
C21_ReleaseFilesPerLink ==
    ReleaseDone =>
        LET at == PositionsFrom(1)
        IN  /\ TheCall.resp \in {401, 403, 404} =>
                   TheCall.outcome = "PackageNotFound" /\ TheCall.files = << >>
            /\ (_get(TheCall.resp) = "page" /\ at = << >>) =>
                   TheCall.outcome = "PackageNotFound" /\ TheCall.files = << >>
            /\ (_get(TheCall.resp) = "page" /\ at # << >>) =>
                   /\ TheCall.outcome = "ok"
                   /\ Len(TheCall.files) = Len(at)
                   /\ \A i \in DOMAIN at :
                          LET link == page[at[i]]
                              f == TheCall.files[i]
                          IN  /\ f.file = [text |-> link.text, wheel |-> link.wheel]
                              /\ f.hash = IF link.hash = NoHash THEN <<NoHash>>
                                          ELSE <<link.hash_name, ":", link.hash>>

\* Release information of a version with a wheel that carries a hash and a
\* source archive that carries none, next to each other on the page.
C21_Witness ==
    /\ ReleaseDone
    /\ TheCall.outcome = "ok"
    /\ Len(TheCall.files) = 2
    /\ Len(TheCall.urls.bdist_wheel) = 1
    /\ Len(TheCall.urls.sdist) = 1
    /\ \E i, j \in 1..2 :
           /\ TheCall.files[i].hash = <<NoHash>>
           /\ TheCall.files[j].hash # <<NoHash>>

\* ================================================ claims: removed names
\* remove_repository(n) is called, in this step, for a name the pool knows.
RemovesKnown ==
    /\ last.op = "idle"
    /\ last'.op = "remove_repository"
    /\ has_repository(pools[last'.pool], last'.name)

\* C22: after remove_repository(n) for a name n known to the pool, the pool
\* no longer recognizes n: has_repository(n) is false (so repository(n) fails
\* with ValueError), the repository list holds no client named n, and a later
\* find_packages or package call naming n is handled as an unrecognized
\* repository.
C22_RemovedNameUnknown ==
    [][RemovesKnown =>
         LET after == pools'[last'.pool]
             n == LowerOpt(last'.name)
         IN  /\ ~has_repository(after, last'.name)
             /\ \A i \in DOMAIN after.repositories :
                    LowerOpt(NameOf(last'.pool, after.repositories[i])) # n
             /\ ~after.ignore_repository_names => Unrecognized(after, n)]_vars

\* ================================================ claims: ignored names
\* package and find_packages on pool p end the same way, with the same
\* packages or the same kind of error, whether they are given the repository
\* name r or none, whatever the clients answer.
SameWithAndWithoutName(p, r) ==
    /\ \A oracle \in [ChainClients(p) -> PackageResp] :
           LET named == package(pools, p, TRUE, r, oracle)
               plain == package(pools, p, TRUE, NoName, oracle)
           IN  named.outcome = plain.outcome /\ named.value = plain.value
    /\ \A oracle \in [ChainClients(p) -> FindResp] :
           LET named == find_packages(pools, p, r, oracle)
               plain == find_packages(pools, p, NoName, oracle)
           IN  named.outcome = plain.outcome /\ named.value = plain.value

\* C23 as stated: for a pool constructed with ignore_repository_names=true,
\* package and find_packages called with any repository name, known or
\* unknown to the pool, end with the same outcome as the same call made with
\* no repository name, for every pool content and every parent chain.
C23_NameIgnored ==
    \A p \in Pools, r \in QueryNames :
        pools[p].ignore_repository_names => SameWithAndWithoutName(p, r)

\* C23, amended: ... for every pool content and every parent chain all of
\* whose pools are constructed with ignore_repository_names=true as well.
C23_NameIgnoredUpTheChain ==
    \A p \in Pools, r \in QueryNames :
        (\A q \in Chain(p) : pools[q].ignore_repository_names) =>
            SameWithAndWithoutName(p, r)

\* A call naming a repository, on a pool that ignores names and has clients
\* of its own, went on to a parent that ignores names too and came back with
\* packages.
C23_Witness ==
    /\ Called("package") \/ Called("find_packages")
    /\ last.name # NoName
    /\ \A q \in Chain(last.pool) : pools[q].ignore_repository_names
    /\ ThePool.repositories # << >>
    /\ OwnEvents # {}
    /\ Len(last.frames) = 2
    /\ last.outcome = "ok"
    /\ last.value # << >>

\* ================================================ claims: absent pages
\* A find_packages call of the main thread, from start to end in this step.
FindWhole ==
    /\ calls[Main].pc = "idle"
    /\ calls'[Main].op = "find_packages"
    /\ calls'[Main].pc = "done"

\* What the store m serves at time t: its entries whose time has not come.
Served(m, t) ==
    [k \in {x \in DOMAIN m : t < m[x].expire} |-> m[k]]

\* C24: when the index page is absent (401, 403 or 404), find_packages returns
\* an empty list and leaves the matched-versions cache as it was: nothing the
\* cache serves changes and no entry is written under the key of the call, so
\* the next call with that key, finding no entry, fetches again instead of
\* being served a cached empty list.
C24_AbsentNotCached ==
    [][FindWhole =>
         LET c == calls'[Main]
             key == KeyOf(c.dep)
         IN  /\ (c.fetched /\ c.resp \in {401, 403, 404}) =>
                    /\ c.outcome = "ok" /\ c.packages = << >>
                    /\ ~c.stored
                    /\ Served(matches', now) = Served(matches, now)
                    /\ key \notin DOMAIN matches'
             /\ key \notin DOMAIN matches => c.fetched /\ ~c.hit]_vars

\* A call found the entry of its key expired and the page absent: it returned
\* the empty list, and the key has no entry.
C24_Witness ==
    /\ FindDone
    /\ TheCall.resp \in {401, 403, 404}
    /\ TheCall.expired
    /\ TheCall.outcome = "ok"
    /\ KeyOf(TheCall.dep) \notin DOMAIN matches

====
